---- MODULE Spec2Model ----
(***************************************************************************)
(* The publication pipeline of myfence-blog-poster: the atomic topic claim *)
(* (claim_next_approved_topic), the write-blogs cron handler, the publish  *)
(* flow (publishScheduledDrafts with commitBlogDirectly) and the endpoint  *)
(* fallback loop of generateBlogPost.                                      *)
(***************************************************************************)
EXTENDS Integers, Sequences, FiniteSets, TLC

\* ---------------------------------------------------------------- bounds
NumTopics == 2        \* topic rows of the pipeline specification
NumInv == 2           \* invocations of the pipeline specification
NumDrafts == 2        \* draft rows present before the first invocation
MaxNow == 2           \* clock values
NumCallers == 5       \* concurrent callers of the claim-only specification
NumClaimTopics == 3   \* topic rows of the claim-only specification
MaxTextLen == 4       \* tokens of an arbitrary body given to sanitizeMdxBody
MaxLines == 3         \* lines of a body made of sample lines
MaxTitleLen == 5      \* characters of a generated title

None == 0

TopicIds == 1..NumTopics
Inv == 1..NumInv
Slugs == 1..(NumDrafts + 1)
DraftIds == 1..(NumDrafts + NumInv)   \* every invocation inserts at most one row

VARIABLES
  topics,       \* blog_topics: id -> [status, priority, created_at, progress_status]
  lockedBy,     \* row locks of blog_topics: id -> the invocations holding the row's lock
  drafts,       \* blog_drafts: id -> row
  files,        \* content store: slug -> blob version of src/content/blog/<slug>.mdx (0: absent)
  now,          \* wall clock
  pc,           \* invocation -> position in its handler
  kind,         \* invocation -> "write" | "publish" | "unauthorized" | "none"
  loc,          \* invocation -> the handler's local variables
  obs,          \* invocation -> what the invocation has done so far (history)
  holders,      \* topic -> invocations the topic was returned to since it last became ready
  committedBy,  \* draft -> invocations whose commit of the draft succeeded (history)
  gen,          \* generateBlogPost: state of one call
  text          \* the text functions: state of one application

vars == <<topics, lockedBy, drafts, files, now, pc, kind, loc, obs, holders,
          committedBy, gen, text>>

\* ------------------------------------------------------------ data model
TopicStatus == {"preparing", "ready", "in_progress", "completed"}
DraftStatus == {"draft", "review", "scheduled", "published", "failed"}

\* A datastore call returns { data, error }: it takes effect, or reports an error.
DbResults == {"ok", "error"}

NoDraft == [exists |-> FALSE, slug |-> None, complete |-> FALSE, status |-> "draft",
            scheduled_publish_at |-> None, topic_id |-> None,
            published_at |-> None, github_pr_url |-> None]

\* let topicId; const slug; existingDraft; drafts[0]; let currentSha; const { commitUrl }
NoLocals == [topicId |-> None, slug |-> None, existingDraft |-> None, draft |-> None,
             currentSha |-> None, commitUrl |-> None]

NoObs == [claimCalls |-> 0, claimed |-> {}, flowAFailed |-> FALSE,
          publishRuns |-> 0, selected |-> {}, precondFailed |-> FALSE,
          storeCalls |-> 0, commits |-> 0, commitFailed |-> FALSE,
          markedPublished |-> FALSE, published |-> None]

\* ORDER BY priority DESC, created_at ASC: without NULLS LAST a descending order puts
\* the rows without a priority first
RanksBeforeNullsFirst(a, b) ==
  \/ a.priority = None /\ b.priority # None
  \/ a.priority # None /\ b.priority # None /\ a.priority > b.priority
  \/ a.priority = b.priority /\ a.created_at < b.created_at

\* ORDER BY priority DESC NULLS LAST, created_at ASC
RanksBefore(a, b) ==
  \/ a.priority # None /\ b.priority = None
  \/ a.priority # None /\ b.priority # None /\ a.priority > b.priority
  \/ a.priority = b.priority /\ a.created_at < b.created_at

\* the subselect without its locking clause: every ready row
ClaimableIgnoringLocks == {t \in DOMAIN topics : topics[t].status = "ready"}

\* a claim that also takes back topics left in_progress
ClaimableOrStuck ==
  {t \in DOMAIN topics : topics[t].status \in {"ready", "in_progress"} /\ lockedBy[t] = {}}

\* WHERE status = 'ready' ... FOR UPDATE SKIP LOCKED: the rows a caller may lock
Claimable == {t \in DOMAIN topics : topics[t].status = "ready" /\ lockedBy[t] = {}}

\* ORDER BY ... LIMIT 1 over the claimable rows
NextTopic ==
  IF Claimable = {} THEN None
  ELSE CHOOSE t \in Claimable :
         \A u \in Claimable \ {t} : RanksBefore(topics[t], topics[u])

\* a catch block that reports the error and returns
CatchPcReportOnly(i) == IF loc[i].topicId # None THEN "reset" ELSE "done"

\* the catch block: with a topic id the reset is issued, publishing follows
CatchPc(i) == IF loc[i].topicId # None THEN "reset" ELSE "pub_select"

\* the handler going back for the next ready topic after a completed one
AfterCompletedNextTopicPc == "claim"

\* after the topic is marked completed: "Also check for any scheduled drafts"
AfterCompletedPc == "pub_select"

\* a failed commit that marks the draft failed
CommitThrowMarksFailedPc == "pub_mark_failed"

\* a failed commit that is logged and not rethrown
CommitThrowSwallowedPc == "pub_mark"

\* commitBlogDirectly throws: publishScheduledDrafts has no catch, the error leaves it
\* and the caller's catch logs it and returns
CommitThrowPc == "done"

\* the handler moves on; when it returns its local variables are gone
Goto(i, to) ==
  /\ pc' = [pc EXCEPT ![i] = to]
  /\ loc' = IF to = "done" THEN [loc EXCEPT ![i] = NoLocals] ELSE loc

\* --------------------------------------------------- write-blogs GET handler
\* invocations are numbered in the order they start
MayStart(i) == pc[i] = "idle" /\ \A j \in DOMAIN pc : j < i => pc[j] # "idle"

\* cronSecret && authHeader !== `Bearer ${cronSecret}`: 401
Unauthorized(i) ==
  /\ MayStart(i)
  /\ pc' = [pc EXCEPT ![i] = "done"]
  /\ kind' = [kind EXCEPT ![i] = "unauthorized"]
  /\ UNCHANGED <<topics, lockedBy, drafts, files, now, loc, obs, holders, committedBy, gen, text>>

\* GET /api/cron/write-blogs or GET /api/cron/publish-blogs
Start(i, k) ==
  /\ MayStart(i)
  /\ pc' = [pc EXCEPT ![i] = IF k = "write" THEN "claim" ELSE "pub_select"]
  /\ kind' = [kind EXCEPT ![i] = k]
  /\ UNCHANGED <<topics, lockedBy, drafts, files, now, loc, obs, holders, committedBy, gen, text>>

\* supabase.rpc("claim_next_approved_topic") reports an error: throw
RpcClaimError(i) ==
  /\ pc[i] = "claim"
  /\ pc' = [pc EXCEPT ![i] = CatchPc(i)]
  /\ obs' = [obs EXCEPT ![i].claimCalls = @ + 1, ![i].flowAFailed = TRUE]
  /\ UNCHANGED <<topics, lockedBy, drafts, files, now, kind, loc, holders, committedBy, gen, text>>

\* the function's subselect: lock the first claimable row, or find none
ClaimSelect(i) ==
  /\ pc[i] = "claim"
  /\ obs' = [obs EXCEPT ![i].claimCalls = @ + 1]
  /\ IF NextTopic = None
       THEN /\ pc' = [pc EXCEPT ![i] = "pub_select"]
            /\ UNCHANGED lockedBy
       ELSE /\ pc' = [pc EXCEPT ![i] = "claim_commit"]
            /\ lockedBy' = [lockedBy EXCEPT ![NextTopic] = @ \cup {i}]
  /\ UNCHANGED <<topics, drafts, files, now, kind, loc, holders, committedBy, gen, text>>

\* a row the claim leaves as it found it
ClaimedRowUnchanged(row) == row

\* SET status = 'in_progress'
ClaimedRow(row) == [row EXCEPT !.status = "in_progress"]

\* the function's UPDATE ... RETURNING *, and the commit that releases the lock
ClaimReturn(i) ==
  /\ pc[i] = "claim_commit"
  /\ \E t \in DOMAIN topics :
       /\ i \in lockedBy[t]
       /\ topics' = [topics EXCEPT ![t] = ClaimedRow(@)]
       /\ lockedBy' = [lockedBy EXCEPT ![t] = @ \ {i}]
       /\ loc' = [loc EXCEPT ![i].topicId = t]
       /\ holders' = [holders EXCEPT ![t] = @ \cup {i}]
       /\ obs' = [obs EXCEPT ![i].claimed = @ \cup {t}]
  /\ pc' = [pc EXCEPT ![i] = "generate"]
  /\ UNCHANGED <<drafts, files, now, kind, committedBy, gen, text>>

\* .update({ progress_status: marker }).eq("id", topic.id). The marker is shown to the
\* operator and read by no step of the pipeline; the write is taken with the call it
\* announces.
WithProgress(t, marker) == [topics EXCEPT ![t].progress_status = marker]

\* "Researching topic and gathering information...", "Generating blog content with
\* AI...", "Saving draft to database...": the markers of the phases of a run
InFlightMarkers == {"researching", "generating", "saving"}

\* progress "Researching...", "Generating..."; blogPost = await generateBlogPost(...)
\* returns a post whose title gives slug s; progress "Saving draft to database..."
GenerateOk(i) ==
  /\ pc[i] = "generate"
  /\ gen.apiKey                  \* without GEMINI_API_KEY the call throws, see GenCall
  /\ \E s \in Slugs : loc' = [loc EXCEPT ![i].slug = s]
  /\ topics' = WithProgress(loc[i].topicId, "saving")
  /\ pc' = [pc EXCEPT ![i] = "draft_select"]
  /\ UNCHANGED <<lockedBy, drafts, files, now, kind, obs, holders, committedBy, gen, text>>

\* generateBlogPost throws: rethrown as "Gemini API failed"
GenerateThrows(i) ==
  /\ pc[i] = "generate"
  /\ topics' = WithProgress(loc[i].topicId, "generating")
  /\ pc' = [pc EXCEPT ![i] = CatchPc(i)]
  /\ obs' = [obs EXCEPT ![i].flowAFailed = TRUE]
  /\ UNCHANGED <<lockedBy, drafts, files, now, kind, loc, holders, committedBy, gen, text>>

DraftWithSlug(s) == {d \in DraftIds : drafts[d].exists /\ drafts[d].slug = s}

\* .from("blog_drafts").select("id").eq("slug", slug).single(): the row, or null
DraftSelect(i) ==
  /\ pc[i] = "draft_select"
  /\ \E r \in DbResults :
       LET found == IF r = "ok" THEN DraftWithSlug(loc[i].slug) ELSE {} IN
       IF found = {}
         THEN pc' = [pc EXCEPT ![i] = "draft_insert"] /\ UNCHANGED loc
         ELSE /\ loc' = [loc EXCEPT ![i].existingDraft = CHOOSE d \in found : TRUE]
              /\ pc' = [pc EXCEPT ![i] = "draft_update"]
  /\ UNCHANGED <<topics, lockedBy, drafts, files, now, kind, obs, holders, committedBy, gen, text>>

\* update of the existing draft: title, body, topic_id, status "draft"
DraftUpdate(i) ==
  /\ pc[i] = "draft_update"
  /\ \E r \in DbResults :
       IF r = "ok"
         THEN /\ drafts' = [drafts EXCEPT ![loc[i].existingDraft] =
                     [@ EXCEPT !.complete = TRUE, !.topic_id = loc[i].topicId,
                               !.status = "draft"]]
              /\ pc' = [pc EXCEPT ![i] = "mark_completed"]
              /\ UNCHANGED obs
         ELSE /\ pc' = [pc EXCEPT ![i] = CatchPc(i)]
              /\ obs' = [obs EXCEPT ![i].flowAFailed = TRUE]
              /\ UNCHANGED drafts
  /\ UNCHANGED <<topics, lockedBy, files, now, kind, loc, holders, committedBy, gen, text>>

\* a table without the UNIQUE constraint on slug
SlugNeverTaken(s) == FALSE

\* slug TEXT UNIQUE NOT NULL: an insert of a slug some row has is rejected
SlugTaken(s) == DraftWithSlug(s) # {}

FreeDraftId ==
  CHOOSE d \in DraftIds : ~drafts[d].exists /\ \A e \in 1..(d - 1) : drafts[e].exists

\* insert of a new draft; slug is UNIQUE, so a taken slug is an error
DraftInsert(i) ==
  /\ pc[i] = "draft_insert"
  /\ \E r \in DbResults :
       IF r = "ok" /\ ~SlugTaken(loc[i].slug)
         THEN /\ drafts' = [drafts EXCEPT ![FreeDraftId] =
                     [NoDraft EXCEPT !.exists = TRUE, !.slug = loc[i].slug,
                                     !.complete = TRUE, !.topic_id = loc[i].topicId,
                                     !.status = "draft"]]
              /\ pc' = [pc EXCEPT ![i] = "mark_completed"]
              /\ UNCHANGED obs
         ELSE /\ pc' = [pc EXCEPT ![i] = CatchPc(i)]
              /\ obs' = [obs EXCEPT ![i].flowAFailed = TRUE]
              /\ UNCHANGED drafts
  /\ UNCHANGED <<topics, lockedBy, files, now, kind, loc, holders, committedBy, gen, text>>

\* .update({ status: "completed" }).eq("id", topic.id); the result is not read
MarkCompleted(i) ==
  /\ pc[i] = "mark_completed"
  /\ \E r \in DbResults :
       topics' = IF r = "ok" THEN [topics EXCEPT ![loc[i].topicId].status = "completed"]
                 ELSE topics
  /\ pc' = [pc EXCEPT ![i] = AfterCompletedPc]
  /\ UNCHANGED <<lockedBy, drafts, files, now, kind, loc, obs, holders, committedBy, gen, text>>

\* an older revision of the handler put the topic back to a status no claim selects
ResetRowNotClaimable(row) == [row EXCEPT !.status = "preparing"]

\* .update({ status: "ready" }): the status only, progress_status is left as it is
ResetRow(row) == [row EXCEPT !.status = "ready"]

\* catch block: .update({ status: "ready" }).eq("id", topicId); the result is not read
ResetTopic(i) ==
  /\ pc[i] = "reset"
  /\ \E r \in DbResults :
       IF r = "ok"
         THEN /\ topics' = [topics EXCEPT ![loc[i].topicId] = ResetRow(@)]
              /\ holders' = [holders EXCEPT ![loc[i].topicId] = {}]
         ELSE UNCHANGED <<topics, holders>>
  /\ pc' = [pc EXCEPT ![i] = "pub_select"]
  /\ UNCHANGED <<lockedBy, drafts, files, now, kind, loc, obs, committedBy, gen, text>>

\* ------------------------------------------------- publishScheduledDrafts
\* .eq("status", "scheduled").not("scheduled_publish_at", "is", null)
\* .lte("scheduled_publish_at", now)
DueDrafts ==
  {d \in DraftIds : /\ drafts[d].exists
                    /\ drafts[d].status = "scheduled"
                    /\ drafts[d].scheduled_publish_at # None
                    /\ drafts[d].scheduled_publish_at <= now}

\* .limit(1) without the order: any due row
AnyDue == DueDrafts

\* .order("scheduled_publish_at", { ascending: true }).limit(1)
FirstDue ==
  {d \in DueDrafts : \A e \in DueDrafts :
     drafts[d].scheduled_publish_at <= drafts[e].scheduled_publish_at}

\* !draft.title || !draft.body_mdx || !draft.slug
MissingRequired(d) == ~drafts[d].complete \/ drafts[d].slug = None

\* the handler returns (or publishScheduledDrafts throws into its caller's catch,
\* which returns)
Return(i) == Goto(i, "done")

\* the select reports an error: throw "Failed to fetch scheduled drafts"
PublishFetchError(i) ==
  /\ pc[i] = "pub_select"
  /\ Return(i)
  /\ obs' = [obs EXCEPT ![i].publishRuns = @ + 1]
  /\ UNCHANGED <<topics, lockedBy, drafts, files, now, kind, holders, committedBy, gen, text>>

\* the select finds no due draft: return { published: 0 }
PublishNothingDue(i) ==
  /\ pc[i] = "pub_select"
  /\ DueDrafts = {}
  /\ Return(i)
  /\ obs' = [obs EXCEPT ![i].publishRuns = @ + 1, ![i].published = 0]
  /\ UNCHANGED <<topics, lockedBy, drafts, files, now, kind, holders, committedBy, gen, text>>

\* the select returns drafts[0]; the required fields are checked
PublishSelect(i) ==
  /\ pc[i] = "pub_select"
  /\ \E d \in FirstDue :
       /\ loc' = [loc EXCEPT ![i].draft = d]
       /\ pc' = [pc EXCEPT ![i] = IF MissingRequired(d) THEN "pub_mark_failed" ELSE "pub_get"]
       /\ obs' = [obs EXCEPT ![i].publishRuns = @ + 1, ![i].selected = @ \cup {d},
                             ![i].precondFailed = MissingRequired(d)]
  /\ UNCHANGED <<topics, lockedBy, drafts, files, now, kind, holders, committedBy, gen, text>>

\* .update({ status: "failed" }).eq("id", draft.id), result not read; then throw
PublishMarkFailed(i) ==
  /\ pc[i] = "pub_mark_failed"
  /\ \E r \in DbResults :
       drafts' = IF r = "ok" THEN [drafts EXCEPT ![loc[i].draft].status = "failed"]
                 ELSE drafts
  /\ Return(i)
  /\ UNCHANGED <<topics, lockedBy, files, now, kind, obs, holders, committedBy, gen, text>>

\* ------------------------------------------------------ commitBlogDirectly
\* octokit.rest.repos.getContent: the file's sha, a 404, or another error (rethrown)
GetContent(i) ==
  /\ pc[i] = "pub_get"
  /\ \E r \in {"ok", "error"} :
       IF r = "ok"
         THEN /\ loc' = [loc EXCEPT ![i].currentSha = files[drafts[loc[i].draft].slug]]
              /\ pc' = [pc EXCEPT ![i] = "pub_put"]
              /\ obs' = [obs EXCEPT ![i].storeCalls = @ + 1]
         ELSE /\ Goto(i, CommitThrowPc)
              /\ obs' = [obs EXCEPT ![i].storeCalls = @ + 1, ![i].commitFailed = TRUE]
  /\ UNCHANGED <<topics, lockedBy, drafts, files, now, kind, holders, committedBy, gen, text>>

\* createOrUpdateFileContents accepts a write whose sha is the file's current one
ShaAccepted(i) == loc[i].currentSha = files[drafts[loc[i].draft].slug]

\* octokit.rest.repos.createOrUpdateFileContents({ ..., sha: currentSha })
PutContent(i) ==
  /\ pc[i] = "pub_put"
  /\ \E r \in {"ok", "error"} :
       IF r = "ok" /\ ShaAccepted(i)
         THEN LET s == drafts[loc[i].draft].slug IN
              /\ files' = [files EXCEPT ![s] = @ + 1]
              /\ loc' = [loc EXCEPT ![i].commitUrl = files[s] + 1]
              /\ committedBy' = [committedBy EXCEPT ![loc[i].draft] = @ \cup {i}]
              /\ obs' = [obs EXCEPT ![i].storeCalls = @ + 1, ![i].commits = @ + 1]
              /\ pc' = [pc EXCEPT ![i] = "pub_mark"]
         ELSE /\ Goto(i, CommitThrowPc)
              /\ obs' = [obs EXCEPT ![i].storeCalls = @ + 1, ![i].commitFailed = TRUE]
              /\ UNCHANGED <<files, committedBy>>
  /\ UNCHANGED <<topics, lockedBy, drafts, now, kind, holders, gen, text>>

\* the update that follows a commit: it is issued once commitBlogDirectly has returned
PublishedRow(i, row) ==
  [row EXCEPT !.status = "published", !.published_at = now,
              !.github_pr_url = loc[i].commitUrl]

\* .update({ status: "published", published_at, github_pr_url }).eq("id", draft.id),
\* result not read; return { published: 1 }
MarkPublished(i) ==
  /\ pc[i] = "pub_mark"
  /\ \E r \in DbResults :
       IF r = "ok"
         THEN /\ drafts' = [drafts EXCEPT ![loc[i].draft] = PublishedRow(i, @)]
              /\ obs' = [obs EXCEPT ![i].markedPublished = TRUE, ![i].published = 1]
         ELSE /\ obs' = [obs EXCEPT ![i].published = 1]
              /\ UNCHANGED drafts
  /\ Return(i)
  /\ UNCHANGED <<topics, lockedBy, files, now, kind, holders, committedBy, gen, text>>

\* time passes
Tick ==
  /\ now < MaxNow
  /\ now' = now + 1
  /\ UNCHANGED <<topics, lockedBy, drafts, files, pc, kind, loc, obs, holders,
                 committedBy, gen, text>>

\* -------------------------------------------- generateBlogPost: endpoint loop
NumEndpoints == 3
HttpOk == 200
HttpErrors == {429, 500, 503}

\* what one fetch gives: a response with its status, or a thrown network error
FetchOutcomes ==
  {[kind |-> "response", status |-> st] : st \in {HttpOk} \cup HttpErrors}
    \cup {[kind |-> "network", status |-> None]}

NoResponse == [endpoint |-> None, status |-> None]
NoError == [kind |-> "none", endpoint |-> None, status |-> None]

GenIdle == [pc |-> "idle", apiKey |-> TRUE, endpoint |-> None, response |-> NoResponse,
            lastError |-> NoError, attempts |-> <<>>, result |-> None,
            thrown |-> NoError]

\* response.ok
ResponseOk(r) == r.status = HttpOk

\* the loop's next index when it goes on after an OK response too
AfterAttemptNoBreak(e, o) == e + 1

\* for (const endpoint of endpoints): break on response.ok, otherwise the next endpoint
AfterAttempt(e, o) == IF ResponseOk(o) THEN NumEndpoints + 1 ELSE e + 1

pipelineVars == <<topics, lockedBy, drafts, files, now, pc, kind, loc, obs, holders,
                  committedBy>>

\* const apiKey = process.env.GEMINI_API_KEY; if (!apiKey) throw
GenCall ==
  /\ gen.pc = "call"
  /\ gen' = IF gen.apiKey
              THEN [gen EXCEPT !.pc = "loop", !.endpoint = 1]
              ELSE [gen EXCEPT !.pc = "done",
                               !.thrown = [NoError EXCEPT !.kind = "config"]]
  /\ UNCHANGED <<pipelineVars, text>>

\* one iteration: response = await fetch(endpoint, ...); lastError on a non-OK
\* response and on a thrown fetch
GenFetch ==
  /\ gen.pc = "loop"
  /\ gen.endpoint <= NumEndpoints
  /\ \E o \in FetchOutcomes :
       gen' = [gen EXCEPT
                 !.attempts = Append(@, [endpoint |-> gen.endpoint, status |-> o.status]),
                 !.response = IF o.kind = "network" THEN @
                              ELSE [endpoint |-> gen.endpoint, status |-> o.status],
                 !.lastError = IF ResponseOk(o) THEN @
                               ELSE [kind |-> IF o.kind = "network" THEN "fetch" ELSE "api",
                                     endpoint |-> gen.endpoint, status |-> o.status],
                 !.endpoint = AfterAttempt(gen.endpoint, o)]
  /\ UNCHANGED <<pipelineVars, text>>

\* if (!response || !response.ok) throw lastError; otherwise the response is parsed
GenAfterLoop ==
  /\ gen.pc = "loop"
  /\ gen.endpoint > NumEndpoints
  /\ gen' = IF ResponseOk(gen.response)
              THEN [gen EXCEPT !.pc = "done", !.result = gen.response.endpoint]
              ELSE [gen EXCEPT !.pc = "done", !.thrown = gen.lastError]
  /\ UNCHANGED <<pipelineVars, text>>

\* ----------------------------------------------------------- text functions
\* A string is a sequence of tokens. A token is one character, or one of the words
\* the code looks for as a whole ("layout", "content"), which stands for exactly that
\* run of characters; the token "fence" stands for the three backticks of a code fence.
Space == {" ", "\n"}
Newline == {"\n"}

TextIdle == [pc |-> "idle", fn |-> "none", shape |-> "none", input |-> <<>>,
             expect |-> <<>>, output |-> <<>>, again |-> <<>>, title |-> <<>>]

\* s.slice(a - 1, b)
Sub(s, a, b) == IF a > b THEN <<>> ELSE SubSeq(s, a, b)

\* the first index from i on whose token is outside cls; Len(s) + 1 when there is none
RECURSIVE SkipIn(_, _, _)
SkipIn(s, i, cls) == IF i <= Len(s) /\ s[i] \in cls THEN SkipIn(s, i + 1, cls) ELSE i

\* the first index from i on whose token is in cls; Len(s) + 1 when there is none
RECURSIVE SkipTo(_, _, _)
SkipTo(s, i, cls) == IF i <= Len(s) /\ s[i] \notin cls THEN SkipTo(s, i + 1, cls) ELSE i

\* the last index whose token is outside cls; 0 when there is none
RECURSIVE LastOutside(_, _, _)
LastOutside(s, i, cls) == IF i >= 1 /\ s[i] \in cls THEN LastOutside(s, i - 1, cls) ELSE i

\* String.prototype.trim
Trim(s) == Sub(s, SkipIn(s, 1, Space), LastOutside(s, Len(s), Space))

\* s.replace(/\s+$/, "")
TrimEnd(s) == Sub(s, 1, LastOutside(s, Len(s), Space))

\* String.prototype.startsWith
StartsWith(s, p) == Len(s) >= Len(p) /\ SubSeq(s, 1, Len(p)) = p

\* s.split("\n")
RECURSIVE Split(_)
Split(s) ==
  LET e == SkipTo(s, 1, Newline) IN
  IF e > Len(s) THEN <<s>> ELSE <<Sub(s, 1, e - 1)>> \o Split(Sub(s, e + 1, Len(s)))

\* lines.join("\n")
RECURSIVE Join(_)
Join(ls) ==
  IF ls = <<>> THEN <<>>
  ELSE IF Len(ls) = 1 THEN ls[1] ELSE ls[1] \o <<"\n">> \o Join(Tail(ls))

\* ----------------------------------------------------------- sanitizeMdxBody
\* body.replace(/^\s*#\s+[^\n]+\n*/, ""): \s+ is greedy and gives characters back
\* until a character other than a newline follows it
StripLeadingH1(s) ==
  LET k == SkipIn(s, 1, Space) IN
  IF k > Len(s) \/ s[k] # "#" THEN s
  ELSE LET p == SkipIn(s, k + 1, Space)
           starts == {q \in (k + 2)..(IF p <= Len(s) THEN p ELSE Len(s)) : s[q] # "\n"}
       IN IF starts = {} THEN s
          ELSE LET q == CHOOSE x \in starts : \A y \in starts : y <= x
                   e == SkipTo(s, q, Newline)
                   f == SkipIn(s, e, Newline)
               IN Sub(s, f, Len(s))

MetadataKeys == {"layout", "showArticleSummary", "imageCaption", "featuredImage"}

\* /^(layout|showArticleSummary|imageCaption|featuredImage)\s*[:=]/.test(t)
IsMetadataLine(t) ==
  /\ t[1] \in MetadataKeys
  /\ LET j == SkipIn(t, 2, Space) IN j <= Len(t) /\ t[j] \in {":", "="}

\* /^!\s*[^[\s]/.test(t)
IsBrokenImageLine(t) ==
  /\ t[1] = "!"
  /\ LET j == SkipIn(t, 2, Space) IN j <= Len(t) /\ t[j] # "["

\* the filter's callback
KeepLine(line) ==
  LET t == Trim(line) IN
  IF t = <<>> THEN TRUE
  ELSE IF IsMetadataLine(t) THEN FALSE
  ELSE IF IsBrokenImageLine(t) THEN FALSE
  ELSE TRUE

\* s.replace(/\n{3,}/g, "\n\n")
RECURSIVE CollapseNewlines(_)
CollapseNewlines(s) ==
  IF s = <<>> THEN s
  ELSE IF s[1] # "\n" THEN <<s[1]>> \o CollapseNewlines(Tail(s))
  ELSE LET e == SkipIn(s, 1, Newline)
           run == e - 1
       IN Sub(s, 1, IF run < 3 THEN run ELSE 2) \o CollapseNewlines(Sub(s, e, Len(s)))

\* s.replace(/\\c/g, to) for one escaped character c
RECURSIVE Unescape(_, _, _)
Unescape(s, c, to) ==
  IF Len(s) < 2 THEN s
  ELSE IF s[1] = "\\" /\ s[2] = c THEN <<to>> \o Unescape(Sub(s, 3, Len(s)), c, to)
  ELSE <<s[1]>> \o Unescape(Tail(s), c, to)

\* ((?:[^"\\]|\\.)*) from index i: the index after the last token of the group
RECURSIVE StringBodyEnd(_, _)
StringBodyEnd(s, i) ==
  IF i > Len(s) \/ s[i] = "\"" THEN i
  ELSE IF s[i] = "\\"
         THEN IF i + 1 <= Len(s) /\ s[i + 1] # "\n" THEN StringBodyEnd(s, i + 2) ELSE i
  ELSE StringBodyEnd(s, i + 1)

\* /"content"\s*:\s*"/ at index i: the index after the opening quote, 0 for no match
ContentAt(s, i) ==
  IF ~StartsWith(Sub(s, i, Len(s)), <<"\"", "content", "\"">>) THEN 0
  ELSE LET a == SkipIn(s, i + 3, Space) IN
       IF a > Len(s) \/ s[a] # ":" THEN 0
       ELSE LET b == SkipIn(s, a + 1, Space) IN
            IF b > Len(s) \/ s[b] # "\"" THEN 0 ELSE b + 1

\* inner.replace(/\s*```\s*$/, "")
StripFenceEnd(s) ==
  LET t == TrimEnd(s) IN
  IF t # <<>> /\ t[Len(t)] = "fence" THEN TrimEnd(Sub(t, 1, Len(t) - 1)) ELSE s

\* extractContentFromJsonBlock; null and "" are both the empty sequence, which the
\* caller tests with if (extracted)
ExtractContentFromJsonBlock(content) ==
  LET trimmed == Trim(content) IN
  IF ~StartsWith(trimmed, <<"fence">>) /\ ~StartsWith(trimmed, <<"{", "\"">>) THEN <<>>
  ELSE LET hits == {i \in 1..Len(trimmed) : ContentAt(trimmed, i) # 0} IN
       IF hits = {} THEN <<>>
       ELSE LET i == CHOOSE x \in hits : \A y \in hits : x <= y
                b == ContentAt(trimmed, i)
                e == StringBodyEnd(trimmed, b)
                inner == Trim(Unescape(Unescape(Sub(trimmed, b, e - 1), "n", "\n"),
                                       "\"", "\""))
            IN Trim(StripFenceEnd(inner))

SanitizeMdxBody(content) ==
  IF content = <<>> THEN content
  ELSE LET extracted == ExtractContentFromJsonBlock(content)
           body == StripLeadingH1(IF extracted # <<>> THEN extracted ELSE content)
       IN Trim(CollapseNewlines(Join(SelectSeq(Split(body), KeepLine))))

\* ------------------------------------------------------------ specifications
InitLocals(I, at) ==
  /\ pc = [i \in I |-> at]
  /\ kind = [i \in I |-> IF at = "idle" THEN "none" ELSE "write"]
  /\ loc = [i \in I |-> NoLocals]
  /\ obs = [i \in I |-> NoObs]

\* the draft rows a user may have left in the table
DraftProfiles ==
  << [status |-> "scheduled", at |-> 1, complete |-> TRUE],
     [status |-> "scheduled", at |-> 2, complete |-> TRUE],
     [status |-> "scheduled", at |-> 1, complete |-> FALSE],
     [status |-> "draft", at |-> None, complete |-> TRUE] >>

\* the rows differ in their slugs only: one assignment for each multiset of profiles
ProfileChoices ==
  {f \in [1..NumDrafts -> DOMAIN DraftProfiles] :
     \A d \in 1..(NumDrafts - 1) : f[d] <= f[d + 1]}

\* the tables, the content store and the invocations before the first request
InitRows ==
  /\ \E st \in [TopicIds -> {"ready", "preparing"}] :
       topics = [t \in TopicIds |->
                   [status |-> st[t], priority |-> t - 1, created_at |-> t,
                    progress_status |-> "none"]]
  /\ lockedBy = [t \in TopicIds |-> {}]
  /\ \E f \in ProfileChoices :
       drafts = [d \in DraftIds |->
                   IF d <= NumDrafts
                     THEN [NoDraft EXCEPT !.exists = TRUE, !.slug = d,
                                          !.complete = DraftProfiles[f[d]].complete,
                                          !.status = DraftProfiles[f[d]].status,
                                          !.scheduled_publish_at = DraftProfiles[f[d]].at]
                     ELSE NoDraft]
  /\ files = [s \in Slugs |-> 0]
  /\ now = 1
  /\ InitLocals(Inv, "idle")
  /\ holders = [t \in TopicIds |-> {}]
  /\ committedBy = [d \in DraftIds |-> {}]
  /\ text = TextIdle

Init == InitRows /\ gen = GenIdle

Next ==
  \/ \E i \in Inv :
       \/ Unauthorized(i)
       \/ \E k \in {"write", "publish"} : Start(i, k)
       \/ RpcClaimError(i)
       \/ ClaimSelect(i)
       \/ ClaimReturn(i)
       \/ GenerateOk(i)
       \/ GenerateThrows(i)
       \/ DraftSelect(i)
       \/ DraftUpdate(i)
       \/ DraftInsert(i)
       \/ MarkCompleted(i)
       \/ ResetTopic(i)
       \/ PublishFetchError(i)
       \/ PublishNothingDue(i)
       \/ PublishSelect(i)
       \/ PublishMarkFailed(i)
       \/ GetContent(i)
       \/ PutContent(i)
       \/ MarkPublished(i)
  \/ Tick

Spec == Init /\ [][Next]_vars

\* the deployment has no GEMINI_API_KEY: every call of generateBlogPost throws at its
\* first statement, so no invocation gets past the generation step
InitNoKey == InitRows /\ gen = [GenIdle EXCEPT !.apiKey = FALSE]

NextNoKey ==
  \/ \E i \in Inv :
       \/ Unauthorized(i)
       \/ \E k \in {"write", "publish"} : Start(i, k)
       \/ RpcClaimError(i)
       \/ ClaimSelect(i)
       \/ ClaimReturn(i)
       \/ GenerateThrows(i)
       \/ ResetTopic(i)
       \/ PublishFetchError(i)
       \/ PublishNothingDue(i)
       \/ PublishSelect(i)
       \/ PublishMarkFailed(i)
       \/ GetContent(i)
       \/ PutContent(i)
       \/ MarkPublished(i)
  \/ Tick

SpecNoKey == InitNoKey /\ [][NextNoKey]_vars

\* the scheduler calls the endpoint again: a new request, with nothing kept from the
\* one before
Again(i) ==
  /\ pc[i] = "done"
  /\ pc' = [pc EXCEPT ![i] = "idle"]
  /\ kind' = [kind EXCEPT ![i] = "none"]
  /\ obs' = [obs EXCEPT ![i] = NoObs]
  /\ UNCHANGED <<topics, lockedBy, drafts, files, now, loc, holders, committedBy, gen, text>>

\* the paths for which createOrUpdateFileContents fails on every call
RejectedSlugs == {1}

\* the content store answers: the file's sha is read, and a write is refused exactly
\* for a rejected path or a stale sha
StoreAnswers(i) ==
  \/ GetContent(i) /\ pc'[i] = "pub_put"
  \/ PutContent(i) /\ (pc'[i] = "pub_mark" <=>
                         (ShaAccepted(i) /\ drafts[loc[i].draft].slug \notin RejectedSlugs))

\* one step of publishScheduledDrafts while the datastore reports no error
PublishSteps(i) ==
  \/ PublishNothingDue(i)
  \/ PublishSelect(i)
  \/ PublishMarkFailed(i) /\ drafts'[loc[i].draft].status = "failed"
  \/ StoreAnswers(i)
  \/ MarkPublished(i) /\ obs'[i].markedPublished

\* one step of a request to GET /api/cron/publish-blogs
PublishLoopStep(i) ==
  \/ Start(i, "publish")
  \/ PublishSteps(i)
  \/ Again(i)

NextPublishLoop == (\E i \in Inv : PublishLoopStep(i)) \/ Tick

\* every request that was started runs to its end, the scheduler keeps calling, and
\* time passes
SpecPublishLoop ==
  /\ Init /\ [][NextPublishLoop]_vars
  /\ \A i \in Inv : WF_vars(PublishLoopStep(i))
  /\ WF_vars(Tick)

\* the topics for which generateBlogPost throws on every call: the best-ranked one
FailingTopics == {NumTopics}

\* one step of a request to GET /api/cron/write-blogs while the datastore reports no
\* error: generation throws exactly for the failing topics, the lookup by slug finds
\* the row there is, and an insert is refused only for a slug that is taken
WriteLoopStep(i) ==
  \/ Start(i, "write")
  \/ ClaimSelect(i)
  \/ ClaimReturn(i)
  \/ GenerateOk(i) /\ loc[i].topicId \notin FailingTopics
  \/ GenerateThrows(i) /\ loc[i].topicId \in FailingTopics
  \/ DraftSelect(i) /\ (pc'[i] = "draft_update" <=> DraftWithSlug(loc[i].slug) # {})
  \/ DraftUpdate(i) /\ pc'[i] = "mark_completed"
  \/ DraftInsert(i) /\ (pc'[i] = "mark_completed" <=> ~SlugTaken(loc[i].slug))
  \/ MarkCompleted(i) /\ topics'[loc[i].topicId].status = "completed"
  \/ ResetTopic(i) /\ topics'[loc[i].topicId].status = "ready"
  \/ PublishSteps(i)
  \/ Again(i)

NextWriteLoop == (\E i \in Inv : WriteLoopStep(i)) \/ Tick

\* every request that was started runs to its end, the scheduler keeps calling, and
\* time passes
SpecWriteLoop ==
  /\ Init /\ [][NextWriteLoop]_vars
  /\ \A i \in Inv : WF_vars(WriteLoopStep(i))
  /\ WF_vars(Tick)

\* n concurrent calls of claim_next_approved_topic and nothing else: every caller is
\* about to issue the call, and the table holds rows of any status and priority
ClaimCallers == 1..NumCallers
ClaimTopicIds == 1..NumClaimTopics

InitClaim ==
  /\ \E st \in [ClaimTopicIds -> {"preparing", "ready", "in_progress"}] :
     \E pri \in [ClaimTopicIds -> {None, 1, 2}] :
       topics = [t \in ClaimTopicIds |->
                   [status |-> st[t], priority |-> pri[t], created_at |-> t,
                    progress_status |-> "none"]]
  /\ lockedBy = [t \in ClaimTopicIds |-> {}]
  /\ drafts = [d \in DraftIds |-> NoDraft]
  /\ files = [s \in Slugs |-> 0]
  /\ now = 1
  /\ InitLocals(ClaimCallers, "claim")
  /\ holders = [t \in ClaimTopicIds |-> {}]
  /\ committedBy = [d \in DraftIds |-> {}]
  /\ gen = GenIdle
  /\ text = TextIdle

NextClaim == \E i \in ClaimCallers : ClaimSelect(i) \/ ClaimReturn(i)

SpecClaim == InitClaim /\ [][NextClaim]_vars

\* one call of generateBlogPost, with or without a configured credential
InitGen ==
  /\ topics = [t \in TopicIds |->
                 [status |-> "in_progress", priority |-> None, created_at |-> t,
                  progress_status |-> "generating"]]
  /\ lockedBy = [t \in TopicIds |-> {}]
  /\ drafts = [d \in DraftIds |-> NoDraft]
  /\ files = [s \in Slugs |-> 0]
  /\ now = 1
  /\ InitLocals(Inv, "generate")
  /\ holders = [t \in TopicIds |-> {}]
  /\ committedBy = [d \in DraftIds |-> {}]
  /\ \E k \in BOOLEAN : gen = [GenIdle EXCEPT !.pc = "call", !.apiKey = k]
  /\ text = TextIdle

NextGen == GenCall \/ GenFetch \/ GenAfterLoop

SpecGen == InitGen /\ [][NextGen]_vars

\* the bodies sanitizeMdxBody is applied to: every string of up to MaxTextLen tokens,
\* every body of up to MaxLines sample lines, and the JSON payloads below
SanAlphabet == {"#", " ", "\n", "a", "!", "[", "layout", ":"}
ShortBodies == UNION {[1..k -> SanAlphabet] : k \in 0..MaxTextLen}

SampleLines ==
  { <<>>, <<"a">>, <<"#", " ", "a">>, <<"!", "a">>, <<"!", "[", "a">>,
    <<"layout", ":", " ", "a">> }
LineBodies == {Join(ls) : ls \in UNION {[1..k -> SampleLines] : k \in 1..MaxLines}}

\* a content string as the backend writes it in JSON, and the article body it stands for
JsonContents ==
  { [raw |-> <<"#", " ", "Title", "\\", "n", "\\", "n", "Body", " ", "text">>,
     body |-> <<"Body", " ", "text">>],
    [raw |-> <<"Body", " ", "text">>, body |-> <<"Body", " ", "text">>],
    [raw |-> <<"Body", "\\", "\"", "text", "\\", "\"">>,
     body |-> <<"Body", "\"", "text", "\"">>] }

\* {"content": "..."} as the backend may write it: fenced or bare, with or without
\* white space after the brace and the colon, complete or cut off inside or after
\* the string
JsonBodies ==
  { [input |-> fence[1] \o brace \o <<"\"", "content", "\"">> \o colon \o <<"\"">>
                 \o c.raw \o close \o fence[2],
     expect |-> c.body] :
      fence \in { <<(<<>>), (<<>>)>>,
                  << <<"fence", "json", "\n">>, <<"\n", "fence">> >>,
                  << <<"fence", "json", "\n">>, <<>> >> },
      brace \in { <<"{">>, <<"{", " ">>, <<"{", "\n", " ", " ">> },
      colon \in { <<":">>, <<":", " ">> },
      c \in JsonContents,
      close \in { <<"\"", "}">>, <<"\"", "\n", "}">>, <<"\"">>, <<>> } }

InitSanitize ==
  /\ \/ \E s \in ShortBodies \cup LineBodies :
          text = [TextIdle EXCEPT !.pc = "input", !.fn = "sanitizeMdxBody",
                                  !.shape = "text", !.input = s]
     \/ \E j \in JsonBodies :
          text = [TextIdle EXCEPT !.pc = "input", !.fn = "sanitizeMdxBody",
                                  !.shape = "json", !.input = j.input,
                                  !.expect = j.expect]
  /\ gen = GenIdle
  /\ topics = <<>> /\ lockedBy = <<>> /\ drafts = <<>> /\ files = <<>> /\ now = 1
  /\ InitLocals({}, "idle")
  /\ holders = <<>> /\ committedBy = <<>>

\* sanitizeMdxBody(content)
SanitizeOnce ==
  /\ text.pc = "input" /\ text.fn = "sanitizeMdxBody"
  /\ text' = [text EXCEPT !.pc = "once", !.output = SanitizeMdxBody(text.input)]
  /\ UNCHANGED <<pipelineVars, gen>>

\* sanitizeMdxBody applied to its own result, as the publish flow applies it to a
\* body the write flow has sanitized
SanitizeTwice ==
  /\ text.pc = "once" /\ text.fn = "sanitizeMdxBody"
  /\ text' = [text EXCEPT !.pc = "twice", !.again = SanitizeMdxBody(text.output)]
  /\ UNCHANGED <<pipelineVars, gen>>

NextSanitize == SanitizeOnce \/ SanitizeTwice

SpecSanitize == InitSanitize /\ [][NextSanitize]_vars

\* ------------------------------------------------------------ slug derivation
\* one character for each class the derivation tells apart: an upper-case letter, a
\* lower-case letter, a digit, the hyphen, and three characters outside a-z and 0-9
TitleAlphabet == {"A", "a", "1", "-", " ", "_", "e_acute"}
SlugChars == {"a", "1"}
Hyphen == {"-"}

\* String.prototype.toLowerCase
ToLowerCase(s) == [k \in 1..Len(s) |-> IF s[k] = "A" THEN "a" ELSE s[k]]

\* a pattern without the +: one hyphen for every character outside a-z and 0-9
RECURSIVE ReplaceEachOther(_)
ReplaceEachOther(s) ==
  IF s = <<>> THEN s
  ELSE <<IF s[1] \in SlugChars THEN s[1] ELSE "-">> \o ReplaceEachOther(Tail(s))

\* .replace(/[^a-z0-9]+/g, "-")
RECURSIVE ReplaceOtherRuns(_)
ReplaceOtherRuns(s) ==
  IF s = <<>> THEN s
  ELSE IF s[1] \in SlugChars THEN <<s[1]>> \o ReplaceOtherRuns(Tail(s))
  ELSE <<"-">> \o ReplaceOtherRuns(Sub(s, SkipTo(s, 1, SlugChars), Len(s)))

\* .replace(/^-+|-+$/g, "")
StripHyphenEnds(s) == Sub(s, SkipIn(s, 1, Hyphen), LastOutside(s, Len(s), Hyphen))

\* const slug = blogPost.title.toLowerCase().replace(...).replace(...)
SlugOf(title) == StripHyphenEnds(ReplaceOtherRuns(ToLowerCase(title)))

InitSlug ==
  /\ \E t \in UNION {[1..k -> TitleAlphabet] : k \in 0..MaxTitleLen} :
       text = [TextIdle EXCEPT !.pc = "input", !.fn = "slug", !.shape = "title",
                               !.input = t]
  /\ gen = GenIdle
  /\ topics = <<>> /\ lockedBy = <<>> /\ drafts = <<>> /\ files = <<>> /\ now = 1
  /\ InitLocals({}, "idle")
  /\ holders = <<>> /\ committedBy = <<>>

DeriveSlug ==
  /\ text.pc = "input" /\ text.fn = "slug"
  /\ text' = [text EXCEPT !.pc = "once", !.output = SlugOf(text.input)]
  /\ UNCHANGED <<pipelineVars, gen>>

NextSlug == DeriveSlug

SpecSlug == InitSlug /\ [][NextSlug]_vars

\* ------------------------------------------- generateBlogPost: response parsing
\* jsonText.replace(/^```json\n?/, "").replace(/\n?```$/, ""), or the same for a
\* fence without a language
StripFences(t) ==
  IF ~StartsWith(t, <<"fence">>) THEN t
  ELSE LET a == Sub(t, IF StartsWith(t, <<"fence", "json">>) THEN 3 ELSE 2, Len(t))
           b == IF a # <<>> /\ a[1] = "\n" THEN Tail(a) ELSE a
           c == IF b # <<>> /\ b[Len(b)] = "fence" THEN Sub(b, 1, Len(b) - 1) ELSE b
       IN IF c # b /\ c # <<>> /\ c[Len(c)] = "\n" THEN Sub(c, 1, Len(c) - 1) ELSE c

\* JSON.parse, for texts whose values are strings, numbers and null: the escapes of a
\* string, the rest of a string from index j, a value, the pairs of an object
JsonEscapes == {"\"", "\\", "n"}
EscapedChar(c) == IF c = "n" THEN "\n" ELSE c

RECURSIVE StringRest(_, _, _)
StringRest(s, j, acc) ==
  IF j > Len(s) \/ s[j] = "\n" THEN [ok |-> FALSE, next |-> j, val |-> <<>>]
  ELSE IF s[j] = "\"" THEN [ok |-> TRUE, next |-> j + 1, val |-> acc]
  ELSE IF s[j] = "\\"
         THEN IF j + 1 <= Len(s) /\ s[j + 1] \in JsonEscapes
                THEN StringRest(s, j + 2, Append(acc, EscapedChar(s[j + 1])))
                ELSE [ok |-> FALSE, next |-> j, val |-> <<>>]
  ELSE StringRest(s, j + 1, Append(acc, s[j]))

NoField == [type |-> "absent", val |-> <<>>]
NoFields == [title |-> NoField, content |-> NoField, body |-> NoField]

ParseScalar(s, i) ==
  IF i > Len(s) THEN [ok |-> FALSE, next |-> i, type |-> "absent", val |-> <<>>]
  ELSE IF s[i] = "\""
         THEN LET r == StringRest(s, i + 1, <<>>) IN
              [ok |-> r.ok, next |-> r.next, type |-> "string", val |-> r.val]
  ELSE IF s[i] = "1" THEN [ok |-> TRUE, next |-> i + 1, type |-> "number", val |-> <<"1">>]
  ELSE IF s[i] = "null" THEN [ok |-> TRUE, next |-> i + 1, type |-> "null", val |-> <<>>]
  ELSE [ok |-> FALSE, next |-> i, type |-> "absent", val |-> <<>>]

WithField(f, key, v) ==
  IF key = <<"title">> THEN [f EXCEPT !.title = v]
  ELSE IF key = <<"content">> THEN [f EXCEPT !.content = v]
  ELSE IF key = <<"body">> THEN [f EXCEPT !.body = v]
  ELSE f

RECURSIVE ParsePairs(_, _, _)
ParsePairs(s, i, f) ==
  LET fail == [ok |-> FALSE, next |-> i, fields |-> f] IN
  IF i > Len(s) \/ s[i] # "\"" THEN fail
  ELSE LET key == StringRest(s, i + 1, <<>>)
           a == SkipIn(s, key.next, Space)
       IN IF ~key.ok \/ a > Len(s) \/ s[a] # ":" THEN fail
          ELSE LET v == ParseScalar(s, SkipIn(s, a + 1, Space))
                   f2 == WithField(f, key.val, [type |-> v.type, val |-> v.val])
                   b == SkipIn(s, v.next, Space)
               IN IF ~v.ok \/ b > Len(s) THEN fail
                  ELSE IF s[b] = "}" THEN [ok |-> TRUE, next |-> b + 1, fields |-> f2]
                  ELSE IF s[b] = "," THEN ParsePairs(s, SkipIn(s, b + 1, Space), f2)
                  ELSE fail

JsonParse(s) ==
  LET i == SkipIn(s, 1, Space)
      fail == [ok |-> FALSE, kind |-> "none", fields |-> NoFields]
      done(ok, next, type, f) ==
        IF ok /\ SkipIn(s, next, Space) > Len(s)
          THEN [ok |-> TRUE, kind |-> type, fields |-> f]
          ELSE fail
  IN IF i > Len(s) THEN fail
     ELSE IF s[i] = "{"
            THEN LET a == SkipIn(s, i + 1, Space) IN
                 IF a <= Len(s) /\ s[a] = "}" THEN done(TRUE, a + 1, "object", NoFields)
                 ELSE LET r == ParsePairs(s, a, NoFields) IN
                      done(r.ok, r.next, "object", r.fields)
     ELSE LET v == ParseScalar(s, i) IN done(v.ok, v.next, v.type, NoFields)

\* generatedText.match(/title["\s:]+"([^"]+)"/i): the trimmed group of the first
\* match
TitleClass == {"\"", " ", "\n", ":"}

TitleByKeyAt(s, i) ==
  LET p == SkipIn(s, i + 1, TitleClass)
      quotes == {q \in (i + 2)..(p - 1) :
                   /\ s[q] = "\""
                   /\ LET r == SkipTo(s, q + 1, {"\""}) IN r <= Len(s) /\ r > q + 1}
  IN IF quotes = {} THEN [ok |-> FALSE, val |-> <<>>]
     ELSE LET q == CHOOSE x \in quotes : \A y \in quotes : y <= x IN
          [ok |-> TRUE, val |-> Trim(Sub(s, q + 1, SkipTo(s, q + 1, {"\""}) - 1))]

TitleByKey(s) ==
  LET hits == {i \in 1..Len(s) : s[i] = "title" /\ TitleByKeyAt(s, i).ok} IN
  IF hits = {} THEN [ok |-> FALSE, val |-> <<>>]
  ELSE TitleByKeyAt(s, CHOOSE x \in hits : \A y \in hits : x <= y)

\* generatedText.match(/#\s+(.+)/)
TitleByHeadingAt(s, k) ==
  LET p == SkipIn(s, k + 1, Space)
      starts == {q \in (k + 2)..(IF p <= Len(s) THEN p ELSE Len(s)) : s[q] # "\n"}
  IN IF starts = {} THEN [ok |-> FALSE, val |-> <<>>]
     ELSE LET q == CHOOSE x \in starts : \A y \in starts : y <= x IN
          [ok |-> TRUE, val |-> Trim(Sub(s, q, SkipTo(s, q, Newline) - 1))]

TitleByHeading(s) ==
  LET hits == {k \in 1..Len(s) : s[k] = "#" /\ TitleByHeadingAt(s, k).ok} IN
  IF hits = {} THEN [ok |-> FALSE, val |-> <<>>]
  ELSE TitleByHeadingAt(s, CHOOSE x \in hits : \A y \in hits : x <= y)

Topic == <<"Topic">>
ExtractFailedMessage == <<"Article content could not be extracted. Please retry.">>
NotJsonMessage == <<"Response was not valid JSON. Please try writing this topic again.">>

\* if (content.trimStart().startsWith("{")) content = `# ${title}\n\nArticle ...`
ContentGuarded(content, title) ==
  IF StartsWith(Sub(content, SkipIn(content, 1, Space), Len(content)), <<"{">>)
    THEN <<"#", " ">> \o title \o <<"\n", "\n">> \o ExtractFailedMessage
    ELSE content

\* generateBlogPost from the response text on: strip the fence, JSON.parse, and the
\* catch block when parsing (or reading a field of null) throws
ParseResponseText(generatedText) ==
  LET parsed == JsonParse(StripFences(Trim(generatedText))) IN
  IF parsed.ok /\ parsed.kind # "null"
    THEN LET f == parsed.fields
             c == IF f.content.type \in {"absent", "null"} THEN f.body ELSE f.content
             content == IF c.type = "string" /\ Trim(c.val) # <<>>
                          THEN c.val ELSE generatedText
             title == IF f.title.type \in {"string", "number"} /\ f.title.val # <<>>
                        THEN f.title.val ELSE Topic
         IN [path |-> "parsed", title |-> title,
             content |-> ContentGuarded(content, title)]
    ELSE LET byKey == TitleByKey(generatedText)
             match == IF byKey.ok THEN byKey ELSE TitleByHeading(generatedText)
             title == IF match.ok THEN match.val ELSE Topic
             isLikelyJson ==
               StartsWith(Sub(generatedText, SkipIn(generatedText, 1, Space),
                              Len(generatedText)), <<"{">>)
         IN [path |-> "fallback", title |-> title,
             content |-> IF isLikelyJson
                           THEN <<"#", " ">> \o title \o <<"\n", "\n">> \o NotJsonMessage
                           ELSE generatedText]

\* the JSON objects the backend is asked for, as token sequences
JsonObjects ==
  { <<"{", "\"", "title", "\"", ":", "\"", "T", "\"", ",",
      "\"", "content", "\"", ":", "\"", "Text", "\"", "}">>,
    <<"{", "\"", "title", "\"", ":", "\"", "T", "\"", ",",
      "\"", "content", "\"", ":", "\"", "\"", "}">>,
    <<"{", "\"", "title", "\"", ":", "\"", "T", "\"", "}">>,
    <<"{", "\"", "title", "\"", ":", " ", "\"", "T", "\"", ",", "\n",
      "\"", "body", "\"", ":", " ", "\"", "Text", "\"", "}">>,
    <<"{", "\"", "content", "\"", ":", "\"", "{", "\\", "\"", "content", "\\", "\"", ":",
      "\\", "\"", "Text", "\\", "\"", "}", "\"", "}">>,
    <<"{", "\"", "content", "\"", ":", "1", "}">>,
    <<"{", "\"", "content", "\"", ":", "\"", " ", "\"", "}">>,
    <<"{", "\"", "content", "\"", ":", "\"", "#", " ", "T", "\\", "n", "Text", "\"", ",",
      "\"", "title", "\"", ":", "\"", "T", "\"", "}">>,
    <<"{", "\"", "content", "\"", ":", "null", ",",
      "\"", "body", "\"", ":", "\"", "Text", "\"", "}">> }

\* every object, whole or cut off after any token
JsonTexts == {SubSeq(o, 1, k) : o \in JsonObjects, k \in 1..5} \cup
             UNION {{SubSeq(o, 1, k) : k \in 1..Len(o)} : o \in JsonObjects}

\* responses that are not an object
PlainTexts ==
  { <<"Text", " ", "Text">>, <<"#", " ", "T", "\n", "Text">>, <<" ", "{", "Text">>,
    <<"1">>, <<"null">>, <<"\"", "Text", "\"">>, <<" ">> }

\* no fence, a json fence, a bare fence, a fence that is not closed, a fence on one line
FenceShapes ==
  { << <<>>, <<>> >>,
    << <<"fence", "json", "\n">>, <<"\n", "fence">> >>,
    << <<"fence", "\n">>, <<"\n", "fence">> >>,
    << <<"fence", "json", "\n">>, <<>> >>,
    << <<"\n", "fence", "json">>, <<"fence", "\n">> >> }

\* a whole object with a sentence before it, after it, or both
SurroundedTexts ==
  LET o == <<"{", "\"", "title", "\"", ":", "\"", "T", "\"", ",",
             "\"", "content", "\"", ":", "\"", "Text", "\"", "}">>
  IN { <<"Text", " ">> \o o, o \o <<" ", "Text">>, <<"Text", " ">> \o o \o <<" ", "Text">>,
       <<"Text", "\n">> \o o \o <<"\n">> }

\* data.candidates[0].content.parts[0].text: not empty, or the function throws
ResponseTexts ==
  {[input |-> w[1] \o b \o w[2], shape |-> "json"] : w \in FenceShapes, b \in JsonTexts}
  \cup
  {[input |-> w[1] \o b \o w[2], shape |-> "plain"] : w \in FenceShapes, b \in PlainTexts}
  \cup
  {[input |-> w[1] \o b \o w[2], shape |-> "surrounded"] :
     w \in FenceShapes, b \in SurroundedTexts}

InitParse ==
  /\ \E r \in ResponseTexts :
       text = [TextIdle EXCEPT !.pc = "input", !.fn = "parse", !.shape = r.shape,
                               !.input = r.input]
  /\ gen = GenIdle
  /\ topics = <<>> /\ lockedBy = <<>> /\ drafts = <<>> /\ files = <<>> /\ now = 1
  /\ InitLocals({}, "idle")
  /\ holders = <<>> /\ committedBy = <<>>

\* the function returns { title, content, ... }
ParseResponse ==
  /\ text.pc = "input" /\ text.fn = "parse"
  /\ \E r \in {ParseResponseText(text.input)} :
       text' = [text EXCEPT !.pc = r.path, !.title = r.title, !.output = r.content]
  /\ UNCHANGED <<pipelineVars, gen>>

NextParse == ParseResponse

SpecParse == InitParse /\ [][NextParse]_vars

\* ------------------------------------------------------------------ claims
Finished(i) == pc[i] = "done"
Returns(i) == pc[i] # "done" /\ pc'[i] = "done"

\* C1: however many claim calls run concurrently, a topic is returned to at most one
\* caller for as long as it has not been reset to ready, and a claim never returns a
\* topic that was in_progress when the claim took it.
C1_ClaimExclusive ==
  /\ [](\A t \in DOMAIN topics : Cardinality(holders[t]) <= 1)
  /\ [][\A i \in DOMAIN pc : \A t \in DOMAIN topics :
          (t \in obs'[i].claimed /\ t \notin obs[i].claimed)
            => (topics[t].status = "ready" /\ topics'[t].status = "in_progress")]_vars

\* a topic returned to one invocation, reset to ready, and returned to the next one
C1_Witness ==
  \E t \in DOMAIN topics :
    /\ t \in obs[1].claimed /\ t \in obs[2].claimed
    /\ holders[t] = {2}
    /\ topics[t].status = "in_progress"

\* C2: with k ready topics and n >= k concurrent claim calls and no reset, exactly k
\* calls return a topic, each a distinct one, and the other n - k calls return none.
AllReturned == \A i \in DOMAIN pc : pc[i] \notin {"claim", "claim_commit"}
InitiallyReady == {t \in DOMAIN topics : topics[t].status = "ready" \/ holders[t] # {}}
Winners == {i \in DOMAIN pc : loc[i].topicId # None}

C2_ExactlyKClaims ==
  (AllReturned /\ Cardinality(DOMAIN pc) >= Cardinality(InitiallyReady)) =>
    /\ Cardinality(Winners) = Cardinality(InitiallyReady)
    /\ \A i \in Winners : loc[i].topicId \in InitiallyReady
    /\ \A i, j \in Winners : i # j => loc[i].topicId # loc[j].topicId
    /\ \A i \in DOMAIN pc \ Winners : obs[i].claimed = {} /\ obs[i].claimCalls = 1

\* two ready topics and five calls: two calls hold distinct topics, three hold none
C2_Witness ==
  /\ AllReturned
  /\ Cardinality(InitiallyReady) = 2
  /\ Cardinality(Winners) = 2
  /\ Cardinality(DOMAIN pc) >= 5
  /\ Cardinality(DOMAIN pc \ Winners) = Cardinality(DOMAIN pc) - 2

\* C3: when generation or draft persistence fails after a successful claim, the
\* claimed topic's status is ready when that invocation returns.
C3_ReadyAfterFailedRun ==
  [][\A i \in DOMAIN pc :
       (Returns(i) /\ obs[i].flowAFailed)
         => \A t \in obs[i].claimed : topics'[t].status = "ready"]_vars

\* C4: a draft that the publish flow marked published has a confirmed commit of its
\* slug in the content store.
C4_PublishedOnlyAfterCommit ==
  \A d \in DraftIds :
    drafts[d].status = "published" =>
      /\ committedBy[d] # {}
      /\ files[drafts[d].slug] >= 1
      /\ drafts[d].github_pr_url \in 1..files[drafts[d].slug]

C4_Witness ==
  \E d \in DraftIds : drafts[d].status = "published" /\ drafts[d].published_at # None

\* C5: when the publish flow selects a due draft whose title, body or slug is empty,
\* it sets the draft's status to failed and calls the content store neither to read
\* nor to write.
C5_PreconditionMarksFailed ==
  [][\A i \in DOMAIN pc :
       (obs[i].precondFailed /\ Returns(i))
         => /\ \A d \in obs[i].selected : drafts'[d].status = "failed"
            /\ obs'[i].storeCalls = 0 /\ obs'[i].commits = 0]_vars

\* C6: an invocation whose content-store commit failed leaves the draft's status as
\* it is: it returns without marking the draft published or failed.
C6_FailedCommitLeavesDraft ==
  /\ [](\A i \in DOMAIN pc : obs[i].commitFailed => ~obs[i].markedPublished)
  /\ [][\A i \in DOMAIN pc :
          (obs'[i].commitFailed /\ pc'[i] # pc[i]) => drafts' = drafts]_vars

\* the commit of invocation 1 failed, the draft is still scheduled and due, and
\* invocation 2 has selected it
C6_Witness ==
  /\ Finished(1) /\ obs[1].commitFailed
  /\ \E d \in obs[1].selected :
       /\ drafts[d].status = "scheduled"
       /\ d \in DueDrafts
       /\ pc[2] = "pub_get" /\ loc[2].draft = d

\* C7: a write-trigger invocation whose Flow A failed has run Flow B by the time it
\* returns, and Flow B can publish a due draft in that invocation.
C7_FlowBRunsAfterFlowAFails ==
  \A i \in DOMAIN pc :
    (Finished(i) /\ kind[i] = "write" /\ obs[i].flowAFailed) => obs[i].publishRuns = 1

\* Flow A failed and the same invocation committed a draft and marked it published
C7_Witness ==
  \E i \in DOMAIN pc :
    /\ Finished(i) /\ kind[i] = "write" /\ obs[i].flowAFailed
    /\ obs[i].commits = 1 /\ obs[i].markedPublished

\* C8: when invocations of the publish flow overlap, a due draft is committed to the
\* content store by at most one of them.
C8_CommittedByAtMostOne ==
  \A d \in DraftIds : Cardinality(committedBy[d]) <= 1

\* C9: one invocation issues the claim at most once, is returned at most one topic,
\* runs the publish flow at most once, and selects and commits at most one draft.
C9_AtMostOneUnit ==
  \A i \in DOMAIN pc :
    /\ obs[i].claimCalls <= 1
    /\ Cardinality(obs[i].claimed) <= 1
    /\ obs[i].publishRuns <= 1
    /\ Cardinality(obs[i].selected) <= 1
    /\ obs[i].commits <= 1

\* an invocation that claimed a topic, completed it and committed a draft
C9_Witness ==
  \E i \in DOMAIN pc :
    /\ Finished(i) /\ ~obs[i].flowAFailed
    /\ obs[i].claimCalls = 1 /\ Cardinality(obs[i].claimed) = 1
    /\ \A t \in obs[i].claimed : topics[t].status = "completed"
    /\ obs[i].publishRuns = 1 /\ obs[i].commits = 1

\* C10: generateBlogPost tries its endpoints in order, each at most once, goes on
\* after a non-OK response or a network error, stops at the first OK response, and
\* throws the last attempt's error only when every endpoint failed.
Attempted == Len(gen.attempts)
AttemptOk(k) == gen.attempts[k].status = HttpOk

C10_EndpointFallback ==
  /\ Attempted <= NumEndpoints
  /\ \A k \in 1..Attempted : gen.attempts[k].endpoint = k
  /\ \A k \in 1..(Attempted - 1) : ~AttemptOk(k)
  /\ gen.thrown.kind = "config" => Attempted = 0
  /\ (gen.pc = "done" /\ gen.thrown.kind # "config") =>
       /\ Attempted >= 1
       /\ AttemptOk(Attempted) \/ Attempted = NumEndpoints
       /\ AttemptOk(Attempted) => gen.result = Attempted /\ gen.thrown = NoError
       /\ ~AttemptOk(Attempted) =>
            /\ gen.result = None
            /\ gen.thrown.kind \in {"api", "fetch"}
            /\ gen.thrown.endpoint = NumEndpoints
            /\ gen.thrown.status = gen.attempts[NumEndpoints].status

\* 503, 503, 200: success from the third endpoint, the first two attempted once each
C10_Witness ==
  /\ gen.pc = "done"
  /\ gen.attempts = << [endpoint |-> 1, status |-> 503], [endpoint |-> 2, status |-> 503],
                       [endpoint |-> 3, status |-> 200] >>
  /\ gen.result = 3

\* C11: every change of a topic's status made by the pipeline is ready to in_progress
\* (claim), in_progress to completed (success) or in_progress to ready (failure
\* reset), and a completed topic is never claimed or changed again.
TopicTransitions ==
  {<<"ready", "in_progress">>, <<"in_progress", "completed">>, <<"in_progress", "ready">>}

C11_TopicTransitions ==
  [][\A t \in DOMAIN topics :
       /\ topics'[t].status # topics[t].status
            => <<topics[t].status, topics'[t].status>> \in TopicTransitions
       /\ topics[t].status = "completed"
            => topics'[t] = topics[t] /\ holders'[t] = holders[t]
       /\ \A i \in DOMAIN pc :
            (t \in obs'[i].claimed /\ t \notin obs[i].claimed)
              => topics[t].status # "completed"]_vars

\* a topic that was claimed, reset to ready, claimed again and completed
C11_Witness ==
  \E t \in DOMAIN topics :
    /\ t \in obs[1].claimed /\ t \in obs[2].claimed
    /\ topics[t].status = "completed"

\* C12: no two draft rows ever share a slug: materialize updates the draft that has
\* the derived slug in place when there is one and inserts a row otherwise, also when
\* two invocations materialize the same slug concurrently.
C12_SlugUnique ==
  /\ [](\A d, e \in DraftIds :
          (d # e /\ drafts[d].exists /\ drafts[e].exists) => drafts[d].slug # drafts[e].slug)
  /\ [][\A d \in DraftIds :
          /\ drafts[d].exists => (drafts'[d].exists /\ drafts'[d].slug = drafts[d].slug)
          /\ (~drafts[d].exists /\ drafts'[d].exists)
               => \A e \in DraftIds : drafts[e].exists => drafts[e].slug # drafts'[d].slug]_vars

\* two invocations found no draft with the slug; one has inserted its row and the
\* other is about to insert the same slug
C12_Witness ==
  \E i, j \in DOMAIN pc : \E d \in DraftIds :
    /\ i # j
    /\ pc[j] = "draft_insert" /\ pc[i] = "mark_completed"
    /\ loc[i].slug = loc[j].slug /\ loc[i].existingDraft = None
    /\ drafts[d].exists /\ drafts[d].slug = loc[j].slug
    /\ drafts[d].topic_id = loc[i].topicId

\* C13: a topic has at most one draft derived from it: across failed runs, retries
\* and concurrent invocations, at most one draft row ever carries a back-reference to
\* a given topic.
DraftsOf(t) == {d \in DraftIds : drafts[d].exists /\ drafts[d].topic_id = t}
PastMaterialize(i) ==
  pc[i] \in {"mark_completed", "pub_select", "pub_mark_failed", "pub_get", "pub_put",
             "pub_mark", "done"}
Materialized(t) ==
  \E i \in DOMAIN pc : t \in obs[i].claimed /\ ~obs[i].flowAFailed /\ PastMaterialize(i)

C13_OneDraftPerTopic ==
  /\ [](\A t \in DOMAIN topics : Cardinality(DraftsOf(t)) <= 1)
  /\ [][\A t \in DOMAIN topics : \A d \in DraftIds :
          (d \in DraftsOf(t)' /\ d \notin DraftsOf(t))
            => (~Materialized(t) /\ DraftsOf(t) = {} /\ Materialized(t)')]_vars

\* a topic whose first run failed and was reset, and whose retry by the next
\* invocation saved the topic's draft
C13_Witness ==
  \E t \in DOMAIN topics :
    /\ t \in obs[1].claimed /\ obs[1].flowAFailed
    /\ t \in obs[2].claimed /\ ~obs[2].flowAFailed
    /\ Cardinality(DraftsOf(t)) = 1

\* C14: sanitizeMdxBody is idempotent: sanitizing a sanitized body changes nothing.
C14_SanitizeIdempotent ==
  text.pc = "twice" => text.again = text.output

\* C15: for a body that is a code-fenced or bare JSON object with a content string
\* field, also when the fragment is cut off, sanitizeMdxBody returns the unescaped
\* content without the fence, the JSON envelope and the leading level-1 heading line;
\* the fenced object with content '# Title', a blank line and 'Body text' yields
\* 'Body text'.
C15_JsonEnvelopeRemoved ==
  (text.pc = "once" /\ text.shape = "json") => text.output = text.expect

\* C16: the output of sanitizeMdxBody has no line that starts with layout:,
\* showArticleSummary:, imageCaption: or featuredImage:, and no line that starts with
\* an exclamation mark not immediately followed by '['; a well-formed image line is
\* preserved unchanged.
C16_NoMetadataNoBrokenImage ==
  text.pc = "once" =>
    /\ \A k \in 1..Len(Split(text.output)) :
         LET line == Split(text.output)[k] IN
         /\ ~(Len(line) >= 2 /\ line[1] \in MetadataKeys /\ line[2] = ":")
         /\ ~(Len(line) >= 1 /\ line[1] = "!" /\ (Len(line) < 2 \/ line[2] # "["))
    /\ text.input = <<"!", "[", "a">> => text.output = text.input

\* the maximal runs of a-z and 0-9 in s, in order
RECURSIVE SlugWords(_)
SlugWords(s) ==
  LET a == SkipTo(s, 1, SlugChars) IN
  IF a > Len(s) THEN <<>>
  ELSE LET b == SkipIn(s, a, SlugChars) IN
       <<Sub(s, a, b - 1)>> \o SlugWords(Sub(s, b, Len(s)))

RECURSIVE HyphenJoin(_)
HyphenJoin(ws) ==
  IF ws = <<>> THEN <<>>
  ELSE IF Len(ws) = 1 THEN ws[1] ELSE ws[1] \o <<"-">> \o HyphenJoin(Tail(ws))

\* C17: the slug derived from a title is the title lower-cased with every maximal run
\* of characters outside a-z and 0-9 replaced by one hyphen and the hyphens at both
\* ends removed: it has only a-z, 0-9 and '-', no two hyphens in a row and no hyphen
\* at either end.
C17_SlugShape ==
  (text.pc = "once" /\ text.fn = "slug") =>
    LET slug == text.output IN
    /\ \A k \in 1..Len(slug) : slug[k] \in SlugChars \cup Hyphen
    /\ \A k \in 1..(Len(slug) - 1) : ~(slug[k] = "-" /\ slug[k + 1] = "-")
    /\ slug # <<>> => (slug[1] # "-" /\ slug[Len(slug)] # "-")
    /\ slug = HyphenJoin(SlugWords(ToLowerCase(text.input)))

\* a title with a hyphen in front, an upper-case letter and a run of two other
\* characters inside
C17_Witness ==
  /\ text.pc = "once" /\ text.fn = "slug"
  /\ text.input = <<"-", "A", " ", "_", "1">>
  /\ text.output = <<"a", "-", "1">>

\* C18: every result of generateBlogPost has a content that is not the empty string
\* and does not start with '{', for valid, fenced and cut-off JSON and for plain text;
\* raw JSON from the backend is never returned as the article content, the retry
\* placeholder is substituted instead.
C18_ContentNeverRawJson ==
  text.pc \in {"parsed", "fallback"} =>
    /\ text.output # <<>>
    /\ text.output[1] # "{"
    /\ text.shape = "json" => text.output # text.input

\* the invocations that called generateBlogPost for topic t and had it throw
GenerationFailedFor(t) ==
  {i \in DOMAIN pc : t \in obs[i].claimed /\ obs[i].flowAFailed /\ pc[i] # "generate"}

\* C19: a missing generation credential is not retried automatically: no backend
\* endpoint is attempted, and once generateBlogPost has failed for a topic because no
\* credential is configured, no later invocation attempts generation for that topic.
C19_ConfigErrorNotRetried ==
  /\ gen.attempts = <<>>
  /\ \A t \in DOMAIN topics : Cardinality(GenerationFailedFor(t)) <= 1

\* C20: after the content-store commit has returned success in the publish flow, the
\* draft ends the invocation with status published, published_at set, and its stored
\* commit reference equal to the commit URL the store returned.
C20_PublishedAfterCommit ==
  [][\A i \in DOMAIN pc :
       (Returns(i) /\ obs[i].commits = 1)
         => LET row == drafts'[loc[i].draft] IN
            /\ row.status = "published"
            /\ row.published_at # None
            /\ row.github_pr_url = loc[i].commitUrl]_vars

\* C21: when the write flow fails after a claim, the step that resets the topic to
\* ready also records in the topic's progress_status a marker that names the failure
\* (so the column is neither empty nor still the marker of a phase of the run).
C21_ResetRecordsError ==
  [][\A i \in DOMAIN pc :
       (pc[i] = "reset" /\ pc'[i] # "reset" /\ topics'[loc[i].topicId].status = "ready")
         => topics'[loc[i].topicId].progress_status \notin InFlightMarkers \cup {"none"}]_vars

\* C22: when materialize succeeds the topic is set to completed and its
\* progress_status is cleared or replaced by a final marker: no completed topic keeps
\* the marker of a phase of the run.
C22_CompletedHasFinalMarker ==
  \A t \in DOMAIN topics :
    topics[t].status = "completed" => topics[t].progress_status \notin InFlightMarkers

\* C23: a claim returns the ready topic with the highest priority, ties broken by the
\* earliest created_at and a null priority ranked last: the row a caller selects is
\* ready, and no other ready row that no caller has locked is strictly better ranked.
C23_ClaimTakesBestRanked ==
  [][\A i \in DOMAIN pc : \A t \in DOMAIN topics :
       (i \in lockedBy'[t] /\ i \notin lockedBy[t]) =>
         /\ topics[t].status = "ready"
         /\ \A u \in DOMAIN topics \ {t} :
              (topics[u].status = "ready" /\ lockedBy[u] = {}) =>
                LET pt == topics[t].priority
                    pu == topics[u].priority
                    older == topics[t].created_at < topics[u].created_at
                IN IF pu = None THEN pt # None \/ older
                   ELSE pt # None /\ (pt > pu \/ (pt = pu /\ older))]_vars

\* a caller holds a topic of priority 2 while an older ready topic without a priority,
\* and a ready topic of priority 1, are left for the next claim
C23_Witness ==
  \E i \in DOMAIN pc : \E t, u, v \in DOMAIN topics :
    /\ loc[i].topicId = t /\ topics[t].priority = 2
    /\ topics[u].status = "ready" /\ topics[u].priority = None
    /\ topics[u].created_at < topics[t].created_at
    /\ topics[v].status = "ready" /\ topics[v].priority = 1

\* C24: publishScheduledDrafts selects only a draft whose status is scheduled and whose
\* scheduled_publish_at is set and not later than now, the one with the earliest
\* scheduled_publish_at; when there is no such draft it changes no draft, calls no
\* content store and reports published = 0.
C24_SelectsEarliestDue ==
  [][\A i \in DOMAIN pc :
       (pc[i] = "pub_select" /\ pc'[i] # "pub_select") =>
         LET due(d) == /\ drafts[d].exists /\ drafts[d].status = "scheduled"
                       /\ drafts[d].scheduled_publish_at # None
                       /\ drafts[d].scheduled_publish_at <= now
             d == loc'[i].draft
         IN /\ d # None =>
                 /\ due(d)
                 /\ \A e \in DOMAIN drafts :
                      due(e) => drafts[d].scheduled_publish_at <= drafts[e].scheduled_publish_at
            /\ (\A e \in DOMAIN drafts : ~due(e)) =>
                 /\ d = None /\ pc'[i] = "done"
                 /\ drafts' = drafts /\ files' = files
                 /\ obs'[i].storeCalls = obs[i].storeCalls
                 /\ obs'[i].published \in {0, None}]_vars

\* at time 2 an invocation has selected the draft scheduled for time 1 while a draft
\* scheduled for time 2 is due as well
C24_Witness ==
  \E i \in DOMAIN pc : \E d, e \in DOMAIN drafts :
    /\ pc[i] = "pub_get" /\ loc[i].draft = d /\ now = 2
    /\ drafts[d].status = "scheduled" /\ drafts[d].scheduled_publish_at = 1
    /\ drafts[e].status = "scheduled" /\ drafts[e].scheduled_publish_at = 2

\* C25: response parsing in generateBlogPost strips a code fence, tries a direct JSON
\* parse, on failure parses the substring between the first '{' and the last '}', and
\* only then falls back to the heuristic title extraction: a valid JSON object
\* surrounded by extra text is parsed into its fields.
C25_SurroundedObjectParsed ==
  (text.fn = "parse" /\ text.pc # "input" /\ text.shape = "surrounded") =>
    /\ text.pc = "parsed"
    /\ text.title = <<"T">>
    /\ text.output = <<"Text">>

\* C26: the publish flow's write of published (or failed) is a conditional update: it
\* takes effect only if the draft's status is still scheduled, so a draft whose status
\* was changed by another actor between selection and update is not overwritten.
C26_PublishWriteConditional ==
  [][\A i \in DOMAIN pc :
       (pc[i] \in {"pub_mark", "pub_mark_failed"} /\ pc'[i] # pc[i]
        /\ drafts[loc[i].draft].status # "scheduled")
         => drafts'[loc[i].draft] = drafts[loc[i].draft]]_vars

\* C27: when a write invocation that claimed a topic returns, that topic's status is
\* completed or ready and never in_progress, also when the update that marks it
\* completed or resets it to ready reports an error (the topic being claimed by no
\* other invocation in the meantime).
C27_NotLeftInProgress ==
  [][\A i \in DOMAIN pc : \A t \in obs[i].claimed :
       (Returns(i) /\ \A j \in DOMAIN pc \ {i} : t \notin obs[j].claimed)
         => topics'[t].status \in {"completed", "ready"}]_vars

\* C28: once a draft has status published, no operation of the pipeline changes its
\* status: neither the publish flow nor materialize, its update of an existing draft
\* with the same derived slug included.
C28_PublishedIsFinal ==
  [][\A d \in DOMAIN drafts :
       drafts[d].status = "published" => drafts'[d].status = "published"]_vars

\* C29: under fair repeated invocation of the publish flow, a due scheduled draft whose
\* commit keeps failing does not keep other due drafts from being published: every due
\* draft whose own commit would succeed is eventually published.
C29_DueDraftsEventuallyPublished ==
  \A d \in DraftIds :
    (/\ drafts[d].exists /\ drafts[d].status = "scheduled" /\ drafts[d].complete
     /\ drafts[d].scheduled_publish_at # None /\ drafts[d].scheduled_publish_at <= now
     /\ drafts[d].slug \notin RejectedSlugs)
      ~> (drafts[d].status = "published")

\* C30: under fair repeated invocation of the write flow, a topic whose generation
\* keeps failing (and is reset to ready each time) does not keep other ready topics
\* from being claimed and completed.
C30_ReadyTopicsEventuallyCompleted ==
  \A t \in TopicIds :
    (topics[t].status = "ready" /\ t \notin FailingTopics)
      ~> (topics[t].status = "completed")
====
